---- MODULE Spec2Model ----
(***************************************************************************)
(* The SvgImg element and its Image asset (crates/ui/src/svg_img.rs).      *)
(*                                                                         *)
(* Pixels (f32) are modelled as exact numbers: whole pixels for the        *)
(* inputs, and fractions <<numerator, denominator>> for the values paint   *)
(* derives from them.  The asset cache of the host framework               *)
(* (Window::use_asset) is keyed by the Hash of the asset source, and runs  *)
(* Asset::load as a background task, once per cache key.                   *)
(*                                                                         *)
(* The conversion loop of Image::load works on bytes with f32 arithmetic,  *)
(* which is modelled bit for bit (ConvertSpec).  The click handlers of     *)
(* SidebarStory (crates/story/src/sidebar_story.rs, SidebarSpec) and the   *)
(* delegate of the customer table (crates/story/src/table_story.rs,        *)
(* TableSpec) are programs of their own over their own variables.          *)
(***************************************************************************)
EXTENDS Integers, FiniteSets, Sequences, TLC

\* const SCALE: f32 = 2.
SCALE == 2

\* ----- bounds of the model ------------------------------------------------
\* Cap on the render passes (request_layout calls) of all elements together.
MaxPasses == 2
\* Cap on the calls of Image::load for one ImageSource.
MaxLoads == 2

\* The SvgImg elements of the window.
Elements == {"a", "b"}

\* ----- inputs ---------------------------------------------------------------
\* enum SvgSource { Data(Arc<[u8]>), Path(SharedString) }
Data(bytes) == [kind |-> "Data", arg |-> bytes]
Path(path)  == [kind |-> "Path", arg |-> path]
SvgSource == {Data("<svg/>"), Data("garbage"), Path("icon.svg")}

\* Size<Pixels>
Size(w, h) == [width |-> w, height |-> h]
Sizes == {Size(0, 40), Size(40, 0), Size(40, 40), Size(200, 50), Size(300000000, 40)}

\* struct ImageSource { source: SvgSource, size: Size<Pixels> }: the valid
\* document at the sizes of non-zero width, the others at a valid size and at
\* a size of zero width.
ImageSource ==
    [source : {Data("<svg/>")}, size : Sizes \ {Size(0, 40)}] \cup
    [source : SvgSource \ {Data("<svg/>")}, size : {Size(40, 40), Size(0, 40)}]

\* Bounds<Pixels>
Bounds(x, y, w, h) == [origin |-> [x |-> x, y |-> y], size |-> Size(w, h)]
BoundsSet == {Bounds(0, 0, 100, 100), Bounds(0, 0, 100, 50), Bounds(10, 20, 30, 60)}

\* Option<T> as a set with at most one element.
None == {}
Some(v) == {v}
Unwrap(o) == CHOOSE v \in o : TRUE

\* Result<T, E>
Ok(v) == [ok |-> TRUE, val |-> v]
Err(e) == [ok |-> FALSE, err |-> e]

\* ImageCacheError::Usvg(Arc<usvg::Error>) and ImageCacheError::Io(Arc<io::Error>)
UsvgError(e) == [variant |-> "Usvg", error |-> e]
IoError(e) == [variant |-> "Io", error |-> e]

\* ----- collaborators --------------------------------------------------------
\* AssetSource::load(&path): Ok(Some(bytes)), Ok(None) or Err(_), as the
\* asset source of the application decides.
AssetSourceLoad(path) == {Ok(Some("<svg/>")), Ok(None), Err("unreadable")}

\* usvg::Tree::from_data(&bytes, &OPTIONS)
TreeFromData(bytes) ==
    IF bytes = "<svg/>" THEN Ok("tree") ELSE Err(UsvgError("ParsingFailed"))

\* f32 `as u32`: a saturating cast (no size of the model reaches u32::MAX).
AsU32(v) == IF v < 0 THEN 0 ELSE v

\* tiny_skia::Pixmap::new(width, height): None for an empty pixmap or one whose
\* row of 4-byte pixels does not fit an i32.
PixmapNew(w, h) ==
    IF w = 0 \/ h = 0 \/ w > 2147483647 \div 4 THEN None ELSE Some(Size(w, h))

\* ----- Image::load ----------------------------------------------------------
\* Pixels::is_zero
IsZero(p) == p = 0

\* Fractions <<n, d>> in lowest terms, for the values derived from whole
\* pixels; d = 0 stands for the inf or NaN of a division by zero.
RECURSIVE GCD(_, _)
GCD(a, b) == IF b = 0 THEN a ELSE GCD(b, a % b)
Abs(a) == IF a < 0 THEN -a ELSE a
Frac(n, d) ==
    IF d = 0 THEN <<n, 0>>
    ELSE LET g == GCD(Abs(n), d) IN <<n \div g, d \div g>>
FracMul(p, r) ==
    IF r[2] = 0 THEN <<p * r[1], 0>>
    ELSE LET g == GCD(Abs(p), r[2]) IN Frac((p \div g) * r[1], r[2] \div g)
FracLeq(a, b) == a[1] * b[2] <= b[1] * a[2]
FracEq(a, b) == a[1] * b[2] = b[1] * a[2]
\* f32::floor and f32::ceil
Floor(r) == r[1] \div r[2]
Ceil(r) == -((-r[1]) \div r[2])

\* What `match source.source` can see: the data itself, or the answer of the
\* asset source for the path.
Resolutions(src) ==
    IF src.kind = "Data" THEN {Ok(Some(src.arg))} ELSE AssetSourceLoad(src.arg)

\* Image::load without the check of the requested size.
LoadRunUnchecked(source, n, res) ==
    LET size == source.size
        scaled == Size(Ceil(Frac(size.width * SCALE, 1)), Ceil(Frac(size.height * SCALE, 1)))
        resolved == IF res.ok /\ res.val # None THEN Some(Unwrap(res.val)) ELSE None
        tree == TreeFromData(Unwrap(resolved))
        pixmap == PixmapNew(AsU32(scaled.width), AsU32(scaled.height))
    IN  IF resolved = None
        THEN [out |-> Err(IoError("failed to load svg image from path")),
              reached |-> {"resolve"}, returned |-> "resolve", resolution |-> Some(res)]
        ELSE IF ~tree.ok
        THEN [out |-> Err(tree.err), reached |-> {"resolve", "parse"}, returned |-> "parse",
              resolution |-> Some(res)]
        ELSE IF pixmap = None
        THEN [out |-> Err(UsvgError("InvalidSize")),
              reached |-> {"resolve", "parse", "pixmap"}, returned |-> "pixmap",
              resolution |-> Some(res)]
        ELSE [out |-> Ok([source |-> source, n |-> n,
                          width |-> Unwrap(pixmap).width,
                          height |-> Unwrap(pixmap).height,
                          frames |-> 1]),
              reached |-> {"resolve", "parse", "pixmap", "render", "convert"},
              returned |-> "end", resolution |-> Some(res)]

\* Image::load taking a source that did not resolve as an empty document.
LoadRunEmptyOnMissing(source, n, res) ==
    LET size == source.size
        scaled == Size(Ceil(Frac(size.width * SCALE, 1)), Ceil(Frac(size.height * SCALE, 1)))
        resolved == IF res.ok /\ res.val # None THEN Some(Unwrap(res.val)) ELSE Some("")
        tree == TreeFromData(Unwrap(resolved))
        pixmap == PixmapNew(AsU32(scaled.width), AsU32(scaled.height))
    IN  IF IsZero(size.width) \/ IsZero(size.height)
        THEN [out |-> Err(UsvgError("InvalidSize")), reached |-> {}, returned |-> "size",
              resolution |-> None]
        ELSE IF ~tree.ok
        THEN [out |-> Err(tree.err), reached |-> {"resolve", "parse"}, returned |-> "parse",
              resolution |-> Some(res)]
        ELSE IF pixmap = None
        THEN [out |-> Err(UsvgError("InvalidSize")),
              reached |-> {"resolve", "parse", "pixmap"}, returned |-> "pixmap",
              resolution |-> Some(res)]
        ELSE [out |-> Ok([source |-> source, n |-> n,
                          width |-> Unwrap(pixmap).width,
                          height |-> Unwrap(pixmap).height,
                          frames |-> 1]),
              reached |-> {"resolve", "parse", "pixmap", "render", "convert"},
              returned |-> "end", resolution |-> Some(res)]

\* Image::load making the pixmap of the requested size, not of the scaled one.
LoadRunUnscaled(source, n, res) ==
    LET size == source.size
        resolved == IF res.ok /\ res.val # None THEN Some(Unwrap(res.val)) ELSE None
        tree == TreeFromData(Unwrap(resolved))
        pixmap == PixmapNew(AsU32(size.width), AsU32(size.height))
    IN  IF IsZero(size.width) \/ IsZero(size.height)
        THEN [out |-> Err(UsvgError("InvalidSize")), reached |-> {}, returned |-> "size",
              resolution |-> None]
        ELSE IF resolved = None
        THEN [out |-> Err(IoError("failed to load svg image from path")),
              reached |-> {"resolve"}, returned |-> "resolve", resolution |-> Some(res)]
        ELSE IF ~tree.ok
        THEN [out |-> Err(tree.err), reached |-> {"resolve", "parse"}, returned |-> "parse",
              resolution |-> Some(res)]
        ELSE IF pixmap = None
        THEN [out |-> Err(UsvgError("InvalidSize")),
              reached |-> {"resolve", "parse", "pixmap"}, returned |-> "pixmap",
              resolution |-> Some(res)]
        ELSE [out |-> Ok([source |-> source, n |-> n,
                          width |-> Unwrap(pixmap).width,
                          height |-> Unwrap(pixmap).height,
                          frames |-> 1]),
              reached |-> {"resolve", "parse", "pixmap", "render", "convert"},
              returned |-> "end", resolution |-> Some(res)]

\* The future returned by Image::load, run to completion (it has no await
\* point).  `n` numbers the calls of load for this source, `res` is one of
\* Resolutions(source.source).  The outcome records the output, the stages
\* the run reached, the statement that returned and what the match on the
\* source saw, if it ran.
LoadRun(source, n, res) ==
    LET size == source.size
        scaled == Size(Ceil(Frac(size.width * SCALE, 1)), Ceil(Frac(size.height * SCALE, 1)))
        resolved == IF res.ok /\ res.val # None THEN Some(Unwrap(res.val)) ELSE None
        tree == TreeFromData(Unwrap(resolved))
        pixmap == PixmapNew(AsU32(scaled.width), AsU32(scaled.height))
    IN  IF IsZero(size.width) \/ IsZero(size.height)
        THEN [out |-> Err(UsvgError("InvalidSize")), reached |-> {}, returned |-> "size",
              resolution |-> None]
        ELSE IF resolved = None
        THEN [out |-> Err(IoError("failed to load svg image from path")),
              reached |-> {"resolve"}, returned |-> "resolve", resolution |-> Some(res)]
        ELSE IF ~tree.ok
        THEN [out |-> Err(tree.err), reached |-> {"resolve", "parse"}, returned |-> "parse",
              resolution |-> Some(res)]
        ELSE IF pixmap = None
        THEN [out |-> Err(UsvgError("InvalidSize")),
              reached |-> {"resolve", "parse", "pixmap"}, returned |-> "pixmap",
              resolution |-> Some(res)]
        ELSE [out |-> Ok([source |-> source, n |-> n,
                          width |-> Unwrap(pixmap).width,
                          height |-> Unwrap(pixmap).height,
                          frames |-> 1]),
              reached |-> {"resolve", "parse", "pixmap", "render", "convert"},
              returned |-> "end", resolution |-> Some(res)]

\* impl Hash for ImageSource: only the SvgSource is hashed.
ImageSourceHash(source) == source.source

\* ----- the colour conversion of Image::load --------------------------------
\* An f32 is a pair <<m, k>> standing for m / 2^k; a quotient has a 24-bit
\* significand, 2^23 <= m < 2^24.  F32Bits is the long division that shifts
\* the quotient q of n / d (remainder r) up to 24 bits.
RECURSIVE F32Bits(_, _, _, _)
F32Bits(q, r, d, k) ==
    IF q >= 2 ^ 23 THEN <<q, r, k>>
    ELSE F32Bits(2 * q + (2 * r) \div d, (2 * r) % d, d, k + 1)

\* IEEE 754 round to nearest, ties to even, of the 24-bit quotient q with
\* remainder r of a division by d.
F32Round(q, r, d, k) ==
    LET up == 2 * r > d \/ (2 * r = d /\ q % 2 = 1)
    IN  IF ~up THEN <<q, k>>
        ELSE IF q + 1 = 2 ^ 24 THEN <<2 ^ 23, k - 1>> ELSE <<q + 1, k>>

\* x / y in f32, for x >= 0 and y > 0.
F32Div(x, y) ==
    IF x[1] = 0 THEN <<0, 0>>
    ELSE LET b == F32Bits(x[1] \div y[1], x[1] % y[1], y[1], 0)
         IN  F32Round(b[1], b[2], y[1], b[3] + x[2] - y[2])

\* `byte as f32`: every u8 is an f32.
AsF32(byte) == <<byte, 0>>

\* `x as u8`: truncation toward zero, saturating at the ends of u8.
AsU8(x) ==
    LET t == IF x[2] >= 0 THEN x[1] \div (2 ^ x[2]) ELSE x[1] * 2 ^ (-x[2])
    IN  IF t > 255 THEN 255 ELSE t

\* pixel.swap(0, 2)
Swap02(pixel) == <<pixel[3], pixel[2], pixel[1], pixel[4]>>

\* The body of the loop over buffer.chunks_exact_mut(4).
ConvertPixel(pixel) ==
    LET p == Swap02(pixel)
    IN  IF p[4] > 0
        THEN LET a == F32Div(AsF32(p[4]), AsF32(255))
             IN  <<AsU8(F32Div(AsF32(p[1]), a)),
                   AsU8(F32Div(AsF32(p[2]), a)),
                   AsU8(F32Div(AsF32(p[3]), a)),
                   p[4]>>
        ELSE p

\* The channel values the rendered pixels are drawn from, and the pixels
\* tiny_skia can render: premultiplied, so no channel exceeds the alpha.
Levels == {0, 64, 128, 255}
PremultipliedPixels ==
    {p \in Levels \X Levels \X Levels \X Levels : p[1] <= p[4] /\ p[2] <= p[4] /\ p[3] <= p[4]}

\* The number of pixels of a rendered pixmap.
MaxPixels == 1

\* ----- SidebarStory: the menu ------------------------------------------------
\* enum Item, enum SubItem
Item == {"Playground", "Models", "Documentation", "Settings",
         "DesignEngineering", "SalesAndMarketing", "Travel"}
SubItem == {"History", "Starred", "General", "Team", "Billing", "Limits", "Settings",
            "Genesis", "Explorer", "Quantum",
            "Introduction", "GetStarted", "Tutorial", "Changelog"}

\* Item::items
Items(item) ==
    CASE item = "Playground" -> <<"History", "Starred", "Settings">>
      [] item = "Models" -> <<"Genesis", "Explorer", "Quantum">>
      [] item = "Documentation" -> <<"Introduction", "GetStarted", "Tutorial", "Changelog">>
      [] item = "Settings" -> <<"General", "Team", "Billing", "Limits">>
      [] OTHER -> <<>>

\* `groups` of render: the items of the Platform and of the Projects group.
Groups == << <<"Playground", "Models", "Documentation", "Settings">>,
             <<"DesignEngineering", "SalesAndMarketing", "Travel">> >>

\* The elements of a Vec.
Range(s) == {s[i] : i \in 1..Len(s)}

\* ----- CustomerTableDelegate: columns and rows -----------------------------
\* enum ColSort of the table widget
ColSort == {"Default", "Ascending", "Descending"}

\* Column::new
Column(id, name, sort) == [id |-> id, name |-> name, sort |-> sort]

\* The columns CustomerTableDelegate::new builds.
NewColumns ==
    << Column("id", "ID", Some("Ascending")),
       Column("login", "Login", Some("Default")),
       Column("first_name", "First Name", Some("Default")),
       Column("last_name", "Last Name", Some("Default")),
       Column("company", "Company", Some("Default")),
       Column("city", "City", Some("Default")),
       Column("country", "Country", Some("Default")),
       Column("email", "Email", Some("Default")),
       Column("phone", "Phone", None),
       Column("gender", "Gender", None),
       Column("age", "Age", Some("Default")),
       Column("verified", "Verified", None),
       Column("confirmed", "Confirmed", None),
       Column("twitter", "Twitter", None) >>

\* The ids of the columns perform_sort has a comparison for.
SortKeys == {"id", "login", "first_name", "last_name", "company", "city", "country",
             "email", "age"}

\* A customer, by the fields perform_sort compares; a string field is given
\* by its rank in the order of strings.
Customer(id, login, first_name, last_name, company, city, country, email, age) ==
    [id |-> id, login |-> login, first_name |-> first_name, last_name |-> last_name,
     company |-> company, city |-> city, country |-> country, email |-> email, age |-> age]

\* randome_customers(3): the ids are the indices, the rest is a sample of
\* the generated values.
RandomeCustomers ==
    << Customer(0, 2, 1, 1, 0, 1, 0, 2, 30),
       Customer(1, 0, 1, 0, 1, 1, 2, 0, 18),
       Customer(2, 1, 0, 1, 1, 0, 1, 1, 30) >>

\* The comparison of sort_by: a.key.cmp(&b.key) when ascending, reversed
\* otherwise, is Less.
CmpLess(a, b, key, asc) == IF asc THEN a[key] < b[key] ELSE b[key] < a[key]

\* Vec::sort_by: a stable sort.
RECURSIVE SortBy(_, _, _)
SortBy(s, key, asc) ==
    IF s = <<>> THEN <<>>
    ELSE LET rest == SortBy(Tail(s), key, asc)
             n == Cardinality({i \in 1..Len(rest) : CmpLess(rest[i], Head(s), key, asc)})
         IN  SubSeq(rest, 1, n) \o <<Head(s)>> \o SubSeq(rest, n + 1, Len(rest))

\* Vec::remove(ix) and Vec::insert(ix, v), with indices from 0.
Remove(s, ix) == SubSeq(s, 1, ix) \o SubSeq(s, ix + 2, Len(s))
Insert(s, ix, v) == SubSeq(s, 1, ix) \o <<v>> \o SubSeq(s, ix + 1, Len(s))

\* The column indices the table widget passes: to perform_sort, and the
\* pairs it passes to move_col (indices from 0; 14 names no column).
SortIxs == {0, 1, 2, 8, 14}
MoveIxs == {0, 1, 2}

\* The number of calls made on the delegate.
MaxCalls == 3

\* ----- state ----------------------------------------------------------------
VARIABLES
    source,          \* SvgImg.source of each element: Option<ImageSource>
    size,            \* SvgImg.size of each element
    pc,              \* the phase each element has completed in its render pass
    observed,        \* what use_asset returned to request_layout: Option<Result>
    layoutState,     \* RequestLayoutState: Option<Arc<RenderImage>>
    prepaintState,   \* PrepaintState.1: Option<Arc<RenderImage>>
    bounds,          \* the bounds the layout engine assigned: Option<Bounds>
    painted,         \* the paint_image calls of the pass, with paint's locals
    loading_assets,  \* the asset cache: entries [id, source, n] naming a task
    tasks,           \* the load tasks spawned: [source, n, outcome : Option]
    loadCalls,       \* the number of calls of Image::load per ImageSource
    passes,          \* the number of render passes started
    pixmap,          \* Image::load: the pixels tiny_skia rendered (premultiplied RGBA)
    buffer,          \* Image::load: `buffer`, the pixels taken from the pixmap
    chunk,           \* Image::load: the 4-byte chunks the conversion loop has visited
    active_item,     \* SidebarStory.active_item
    active_subitem,  \* SidebarStory.active_subitem: Option<SubItem>
    collapsed,       \* SidebarStory.collapsed
    side,            \* SidebarStory.side
    columns,         \* CustomerTableDelegate.columns
    customers,       \* CustomerTableDelegate.customers
    lastCall,        \* the last call made on the delegate, with what col_sort answers after it
    calls            \* the number of calls made on the delegate

vars == <<source, size, pc, observed, layoutState, prepaintState, bounds, painted,
          loading_assets, tasks, loadCalls, passes,
          pixmap, buffer, chunk,
          active_item, active_subitem, collapsed, side,
          columns, customers, lastCall, calls>>

elementVars == <<source, size, pc, observed, layoutState, prepaintState, bounds, painted, passes>>
cacheVars == <<loading_assets, tasks, loadCalls>>
imgVars == <<elementVars, cacheVars>>
pixelVars == <<pixmap, buffer, chunk>>
sidebarVars == <<active_item, active_subitem, collapsed, side>>
tableVars == <<columns, customers, lastCall, calls>>
\* What the element and its cache leave alone.
otherVars == <<pixelVars, sidebarVars, tableVars>>

\* No pixmap has been rendered.
NoPixmap == pixmap = <<>> /\ buffer = <<>> /\ chunk = 0

\* SidebarStory::new
SidebarStoryNew ==
    /\ active_item = "Playground"
    /\ active_subitem = None
    /\ collapsed = FALSE
    /\ side = "Left"

\* CustomerTableDelegate::new, before any call on the delegate.
CustomerTableDelegateNew ==
    /\ columns = NewColumns
    /\ customers = RandomeCustomers
    /\ lastCall = [op |-> "new"]
    /\ calls = 0

\* SvgImg::new(): no source, Size::default(); nothing rendered, nothing loaded.
SvgImgNew ==
    /\ source = [e \in Elements |-> None]
    /\ size = [e \in Elements |-> Size(0, 0)]
    /\ pc = [e \in Elements |-> "new"]
    /\ observed = [e \in Elements |-> None]
    /\ layoutState = [e \in Elements |-> None]
    /\ prepaintState = [e \in Elements |-> None]
    /\ bounds = [e \in Elements |-> None]
    /\ painted = [e \in Elements |-> <<>>]
    /\ loading_assets = {}
    /\ tasks = {}
    /\ loadCalls = [s \in ImageSource |-> 0]
    /\ passes = 0

\* Every element, the cache and the stories as their constructors leave them.
Init ==
    /\ SvgImgNew
    /\ NoPixmap
    /\ SidebarStoryNew
    /\ CustomerTableDelegateNew

\* The next render pass builds the element anew with SvgImg::new().
New(e) ==
    /\ pc[e] = "painted"
    /\ source' = [source EXCEPT ![e] = None]
    /\ size' = [size EXCEPT ![e] = Size(0, 0)]
    /\ pc' = [pc EXCEPT ![e] = "new"]
    /\ observed' = [observed EXCEPT ![e] = None]
    /\ layoutState' = [layoutState EXCEPT ![e] = None]
    /\ prepaintState' = [prepaintState EXCEPT ![e] = None]
    /\ bounds' = [bounds EXCEPT ![e] = None]
    /\ painted' = [painted EXCEPT ![e] = <<>>]
    /\ UNCHANGED passes
    /\ UNCHANGED cacheVars
    /\ UNCHANGED otherVars

\* SvgImg::source(source, width, height)
SetSource(e, src, width, height) ==
    /\ pc[e] = "new"
    /\ size' = [size EXCEPT ![e] = Size(width, height)]
    /\ source' = [source EXCEPT ![e] = Some([source |-> src, size |-> Size(width, height)])]
    /\ UNCHANGED <<pc, observed, layoutState, prepaintState, bounds, painted, passes>>
    /\ UNCHANGED cacheVars
    /\ UNCHANGED otherVars

\* ----- the asset cache of the host (App::fetch_asset, Window::use_asset) ---
\* The cache entry for the hash of `src`, if any.
Cached(src) == {a \in loading_assets : a.id = ImageSourceHash(src)}

\* The task a cache entry names.
TaskOf(a) == CHOOSE t \in tasks : t.source = a.source /\ t.n = a.n

\* A task spawned for `src`; `early` when it has run by the time it is polled.
Spawned(src, early, res) ==
    LET n == loadCalls[src] + 1
    IN  [source |-> src, n |-> n,
         outcome |-> IF early THEN Some(LoadRun(src, n, res)) ELSE None]

\* fetch_asset: the task of the cache entry, or a newly spawned one.
FetchAsset(src, early, res) ==
    IF Cached(src) # {} THEN TaskOf(Unwrap(Cached(src))) ELSE Spawned(src, early, res)

\* Shared<Task>::now_or_never
NowOrNever(t) == IF t.outcome = None THEN None ELSE Some(Unwrap(t.outcome).out)

\* use_asset: the output of the task if it has completed.
UseAsset(src, early, res) == NowOrNever(FetchAsset(src, early, res))

\* The effect of fetch_asset on the cache: a first request for a hash spawns
\* the load and records its task.
FetchAssetEffect(src, early, res) ==
    IF Cached(src) # {}
    THEN UNCHANGED cacheVars
    ELSE LET t == Spawned(src, early, res)
         IN  /\ loadCalls[src] < MaxLoads
             /\ loadCalls' = [loadCalls EXCEPT ![src] = t.n]
             /\ tasks' = tasks \cup {t}
             /\ loading_assets' = loading_assets \cup
                    {[id |-> ImageSourceHash(src), source |-> src, n |-> t.n]}

\* The background executor runs a spawned load.
Load(t) ==
    /\ t \in tasks
    /\ t.outcome = None
    /\ \E res \in Resolutions(t.source.source) :
          tasks' = (tasks \ {t}) \cup
                   {[t EXCEPT !.outcome = Some(LoadRun(t.source, t.n, res))]}
    /\ UNCHANGED <<loading_assets, loadCalls>>
    /\ UNCHANGED elementVars
    /\ UNCHANGED otherVars

\* ----- impl Element for SvgImg --------------------------------------------
\* The match that takes every answer of use_asset as a load still pending.
DataOfPending(got) == None

\* `Some(Ok(data)) => Some(data), _ => None`
DataOf(got) == IF got # None /\ Unwrap(got).ok THEN Some(Unwrap(got).val) ELSE None

\* request_layout running Image::load itself instead of asking the cache.
RequestLayoutUncached(e) ==
    /\ pc[e] = "new"
    /\ passes < MaxPasses
    /\ passes' = passes + 1
    /\ pc' = [pc EXCEPT ![e] = "layout"]
    /\ IF source[e] = None
       THEN /\ observed' = [observed EXCEPT ![e] = None]
            /\ layoutState' = [layoutState EXCEPT ![e] = None]
            /\ UNCHANGED cacheVars
       ELSE \E res \in Resolutions(Unwrap(source[e]).source) :
              LET t == Spawned(Unwrap(source[e]), TRUE, res)
                  got == NowOrNever(t)
              IN  /\ loadCalls[t.source] < MaxLoads
                  /\ loadCalls' = [loadCalls EXCEPT ![t.source] = t.n]
                  /\ tasks' = tasks \cup {t}
                  /\ UNCHANGED loading_assets
                  /\ observed' = [observed EXCEPT ![e] = got]
                  /\ layoutState' = [layoutState EXCEPT ![e] = DataOf(got)]
    /\ UNCHANGED <<source, size, prepaintState, bounds, painted>>
    /\ UNCHANGED otherVars

RequestLayout(e) ==
    /\ pc[e] = "new"
    /\ passes < MaxPasses
    /\ passes' = passes + 1
    /\ pc' = [pc EXCEPT ![e] = "layout"]
    /\ IF source[e] = None
       THEN /\ observed' = [observed EXCEPT ![e] = None]
            /\ layoutState' = [layoutState EXCEPT ![e] = None]
            /\ UNCHANGED cacheVars
       ELSE \E early \in BOOLEAN, res \in Resolutions(Unwrap(source[e]).source) :
              LET got == UseAsset(Unwrap(source[e]), early, res)
              IN  /\ FetchAssetEffect(Unwrap(source[e]), early, res)
                  /\ observed' = [observed EXCEPT ![e] = got]
                  /\ layoutState' = [layoutState EXCEPT ![e] = DataOf(got)]
    /\ UNCHANGED <<source, size, prepaintState, bounds, painted>>
    /\ UNCHANGED otherVars

\* prepaint that does not hand the bitmap on.
PrepaintDropsState(e) ==
    /\ pc[e] = "layout"
    /\ pc' = [pc EXCEPT ![e] = "prepaint"]
    /\ \E b \in BoundsSet : bounds' = [bounds EXCEPT ![e] = Some(b)]
    /\ prepaintState' = [prepaintState EXCEPT ![e] = None]
    /\ UNCHANGED <<source, size, observed, layoutState, painted, passes>>
    /\ UNCHANGED cacheVars
    /\ UNCHANGED otherVars

Prepaint(e) ==
    /\ pc[e] = "layout"
    /\ pc' = [pc EXCEPT ![e] = "prepaint"]
    /\ \E b \in BoundsSet : bounds' = [bounds EXCEPT ![e] = Some(b)]
    /\ prepaintState' = [prepaintState EXCEPT ![e] = layoutState[e]]
    /\ UNCHANGED <<source, size, observed, layoutState, painted, passes>>
    /\ UNCHANGED cacheVars
    /\ UNCHANGED otherVars

\* f32::min(1.0) of a quotient; a division by zero gives inf or NaN, and
\* both become 1.0.
MinOne(r) == IF r[2] = 0 \/ r[1] >= r[2] THEN Frac(1, 1) ELSE r

\* The ratio without `ratio.min(1.0)`.
RatioUncapped(b, sz) ==
    LET ratio == IF b.size.width < b.size.height
                 THEN Frac(b.size.width, sz.width)
                 ELSE Frac(b.size.height, sz.height)
    IN  IF ratio[2] = 0 THEN Frac(1, 1) ELSE ratio

\* The ratio of the original image size to the container bounds size.
Ratio(b, sz) ==
    LET ratio == IF b.size.width < b.size.height
                 THEN Frac(b.size.width, sz.width)
                 ELSE Frac(b.size.height, sz.height)
    IN  MinOne(ratio)

NewSize(sz, ratio) ==
    [width |-> FracMul(sz.width, ratio), height |-> FracMul(sz.height, ratio)]

\* origin + (extent - new_extent) / 2
Centered(origin, extent, new_extent) ==
    Frac(2 * origin * new_extent[2] + extent * new_extent[2] - new_extent[1],
         2 * new_extent[2])

\* The origin without the division by two.
NewOriginNotHalved(b, new_size) ==
    [x |-> Frac(b.origin.x * new_size.width[2] + b.size.width * new_size.width[2]
                - new_size.width[1], new_size.width[2]),
     y |-> Frac(b.origin.y * new_size.height[2] + b.size.height * new_size.height[2]
                - new_size.height[1], new_size.height[2])]

NewOrigin(b, new_size) ==
    [x |-> Centered(b.origin.x, b.size.width, new_size.width),
     y |-> Centered(b.origin.y, b.size.height, new_size.height)]

ImgBounds(new_origin, new_size) ==
    [origin |-> [x |-> Floor(new_origin.x), y |-> Floor(new_origin.y)],
     size |-> Size(Ceil(new_size.width), Ceil(new_size.height))]

\* The paint_image call of paint with the Err arm of the match left empty.
PaintImageUnlogged(b, sz, data, result) ==
    LET ratio == Ratio(b, sz)
        new_size == NewSize(sz, ratio)
        new_origin == NewOrigin(b, new_size)
    IN  [ratio |-> ratio, new_size |-> new_size, new_origin |-> new_origin,
         img_bounds |-> ImgBounds(new_origin, new_size),
         data |-> data, result |-> result, logged |-> FALSE]

\* The paint_image call of paint, with the locals it was computed from;
\* `result` is what the window answers, an Err is logged.
PaintImage(b, sz, data, result) ==
    LET ratio == Ratio(b, sz)
        new_size == NewSize(sz, ratio)
        new_origin == NewOrigin(b, new_size)
    IN  [ratio |-> ratio, new_size |-> new_size, new_origin |-> new_origin,
         img_bounds |-> ImgBounds(new_origin, new_size),
         data |-> data, result |-> result, logged |-> ~result.ok]

\* paint asking the cache again instead of taking the bitmap prepaint
\* handed on.
PaintRefetch(e) ==
    /\ pc[e] = "prepaint"
    /\ pc' = [pc EXCEPT ![e] = "painted"]
    /\ LET t == IF source[e] = None \/ Cached(Unwrap(source[e])) = {}
                THEN None
                ELSE Some(TaskOf(Unwrap(Cached(Unwrap(source[e])))))
           data == IF t = None THEN None ELSE DataOf(NowOrNever(Unwrap(t)))
       IN  IF data = None
           THEN UNCHANGED painted
           ELSE \E result \in {Ok("ok"), Err("paint error")} :
                  painted' = [painted EXCEPT ![e] =
                    Append(@, PaintImage(Unwrap(bounds[e]), size[e], Unwrap(data), result))]
    /\ UNCHANGED <<source, size, observed, layoutState, prepaintState, bounds, passes>>
    /\ UNCHANGED cacheVars
    /\ UNCHANGED otherVars

Paint(e) ==
    /\ pc[e] = "prepaint"
    /\ pc' = [pc EXCEPT ![e] = "painted"]
    /\ IF prepaintState[e] = None
       THEN UNCHANGED painted
       ELSE \E result \in {Ok("ok"), Err("paint error")} :
              painted' = [painted EXCEPT ![e] =
                Append(@, PaintImage(Unwrap(bounds[e]), size[e],
                                     Unwrap(prepaintState[e]), result))]
    /\ UNCHANGED <<source, size, observed, layoutState, prepaintState, bounds, passes>>
    /\ UNCHANGED cacheVars
    /\ UNCHANGED otherVars

Next ==
    \/ \E e \in Elements : New(e)
    \/ \E e \in Elements, s \in ImageSource : SetSource(e, s.source, s.size.width, s.size.height)
    \/ \E e \in Elements : RequestLayout(e)
    \/ \E e \in Elements : Prepaint(e)
    \/ \E e \in Elements : Paint(e)
    \/ \E t \in tasks : Load(t)

Spec == Init /\ [][Next]_vars

\* ----- the conversion loop of Image::load ---------------------------------
\* resvg::render has filled the pixmap and `buffer` holds its pixels; the
\* loop has visited no chunk yet.
Rendered ==
    /\ \E n \in 1..MaxPixels : pixmap \in [1..n -> PremultipliedPixels]
    /\ buffer = pixmap
    /\ chunk = 0

\* One iteration of `for pixel in buffer.chunks_exact_mut(4)`.
ConvertChunk ==
    /\ chunk < Len(buffer)
    /\ buffer' = [buffer EXCEPT ![chunk + 1] = ConvertPixel(@)]
    /\ chunk' = chunk + 1
    /\ UNCHANGED pixmap
    /\ UNCHANGED <<imgVars, sidebarVars, tableVars>>

ConvertInit ==
    /\ SvgImgNew
    /\ Rendered
    /\ SidebarStoryNew
    /\ CustomerTableDelegateNew

ConvertNext == ConvertChunk

ConvertSpec == ConvertInit /\ [][ConvertNext]_vars

\* ----- SidebarStory: the click handlers -----------------------------------
\* Item::handler: the click on an item of either group.
ItemHandler(item) ==
    /\ active_item' = item
    /\ active_subitem' = None
    /\ UNCHANGED <<collapsed, side>>
    /\ UNCHANGED <<imgVars, pixelVars, tableVars>>

\* SubItem::handler(item): the click on a sub-item listed under `item`.
SubItemHandler(subitem, item) ==
    /\ active_item' = item
    /\ active_subitem' = Some(subitem)
    /\ UNCHANGED <<collapsed, side>>
    /\ UNCHANGED <<imgVars, pixelVars, tableVars>>

\* The click on the breadcrumb "Home".
HomeClick ==
    /\ active_item' = "Playground"
    /\ UNCHANGED <<active_subitem, collapsed, side>>
    /\ UNCHANGED <<imgVars, pixelVars, tableVars>>

\* The click on the breadcrumb of the active item.
ActiveItemClick ==
    /\ active_subitem' = None
    /\ UNCHANGED <<active_item, collapsed, side>>
    /\ UNCHANGED <<imgVars, pixelVars, tableVars>>

\* The click on the SidebarToggleButton.
ToggleCollapsed ==
    /\ collapsed' = ~collapsed
    /\ UNCHANGED <<active_item, active_subitem, side>>
    /\ UNCHANGED <<imgVars, pixelVars, tableVars>>

\* The click on the switch "Placement Right".
SideSwitch(checked) ==
    /\ side' = (IF checked THEN "Right" ELSE "Left")
    /\ UNCHANGED <<active_item, active_subitem, collapsed>>
    /\ UNCHANGED <<imgVars, pixelVars, tableVars>>

\* The handlers render installs: every item of both groups, and under each
\* item of the first group its own sub-items.
SidebarNext ==
    \/ \E g \in 1..2 : \E item \in Range(Groups[g]) : ItemHandler(item)
    \/ \E item \in Range(Groups[1]) : \E sub_item \in Range(Items(item)) :
          SubItemHandler(sub_item, item)
    \/ HomeClick
    \/ ActiveItemClick
    \/ ToggleCollapsed
    \/ \E checked \in BOOLEAN : SideSwitch(checked)

SidebarSpec == Init /\ [][SidebarNext]_vars

\* ----- CustomerTableDelegate: the calls of the table widget ---------------
\* col_sort(col_ix) on the columns `cols`
col_sort(cols, col_ix) == IF col_ix < Len(cols) THEN cols[col_ix + 1].sort ELSE None

\* The loop that closes perform_sort: every Ascending column becomes Default.
ResetAscending(cols) ==
    [i \in 1..Len(cols) |->
        IF cols[i].sort = Some("Ascending") THEN [cols[i] EXCEPT !.sort = Some("Default")]
        ELSE cols[i]]

\* perform_sort(col_ix, sort, _)
PerformSort(col_ix, sort) ==
    /\ calls < MaxCalls
    /\ calls' = calls + 1
    /\ lastCall' = [op |-> "perform_sort", col_ix |-> col_ix, sort |-> sort]
    /\ IF col_ix < Len(columns)
       THEN LET col == columns[col_ix + 1]
                asc == sort = "Ascending"
            IN  /\ columns' = ResetAscending([columns EXCEPT ![col_ix + 1].sort = Some(sort)])
                /\ customers' = IF col.id \in SortKeys
                                THEN SortBy(customers, col.id, asc)
                                ELSE customers
       ELSE UNCHANGED <<columns, customers>>
    /\ UNCHANGED <<imgVars, pixelVars, sidebarVars>>

\* move_col(col_ix, to_ix); both index a column, or Vec::remove and
\* Vec::insert panic.
MoveCol(col_ix, to_ix) ==
    /\ calls < MaxCalls
    /\ calls' = calls + 1
    /\ col_ix < Len(columns)
    /\ to_ix < Len(columns)
    /\ lastCall' = [op |-> "move_col", col_ix |-> col_ix, to_ix |-> to_ix]
    /\ columns' = Insert(Remove(columns, col_ix), to_ix, columns[col_ix + 1])
    /\ UNCHANGED customers
    /\ UNCHANGED <<imgVars, pixelVars, sidebarVars>>

TableNext ==
    \/ \E col_ix \in SortIxs, sort \in ColSort : PerformSort(col_ix, sort)
    \/ \E col_ix \in MoveIxs, to_ix \in MoveIxs : MoveCol(col_ix, to_ix)

TableSpec == Init /\ [][TableNext]_vars

\* ----- the claims -----------------------------------------------------------
Painted(e) == painted[e] # <<>>
Call(e) == painted[e][1]
Requested(e) == pc[e] # "new" /\ source[e] # None
Done == {t \in tasks : t.outcome # None}
Outcome(t) == Unwrap(t.outcome)

\* The error kinds of the specification, as the values the code has for them.
InvalidSize == UsvgError("InvalidSize")
InvalidDocument == UsvgError("ParsingFailed")

\* C1: an element never receives a bitmap that was rasterized for a size
\* other than the one it requested.
C1_BitmapOfRequestedSize ==
    \A e \in Elements :
        layoutState[e] # None =>
            Unwrap(layoutState[e]).source.size = Unwrap(source[e]).size

\* C2: Image::load runs at most once for an ImageSource key, and there is
\* never more than one rasterization of a key in flight.
C2_LoadAtMostOnce ==
    \A s \in ImageSource :
        /\ loadCalls[s] <= 1
        /\ Cardinality({t \in tasks : t.source = s}) <= 1

C2_Witness ==
    \E e1, e2 \in Elements :
        /\ e1 # e2
        /\ Requested(e1) /\ Requested(e2)
        /\ source[e1] = source[e2]
        /\ loadCalls[Unwrap(source[e1])] = 1

\* C3: two waiters for the same ImageSource key that observe a completed
\* load observe the same outcome: the same shared bitmap or the same error.
C3_SameOutcome ==
    \A e1, e2 \in Elements :
        (/\ Requested(e1) /\ Requested(e2)
         /\ source[e1] = source[e2]
         /\ observed[e1] # None /\ observed[e2] # None)
        => observed[e1] = observed[e2]

C3_Witness ==
    \E e1, e2 \in Elements :
        /\ e1 # e2
        /\ Requested(e1) /\ Requested(e2)
        /\ source[e1] = source[e2]
        /\ observed[e1] # None /\ observed[e2] # None
        /\ Unwrap(observed[e1]).ok

\* C4: a load whose requested width or height is zero ends with InvalidSize
\* and reaches neither the resolution of the source, the parser, the pixmap
\* allocation nor the rendering.
C4_ZeroSizeInvalid ==
    \A t \in Done :
        (t.source.size.width = 0 \/ t.source.size.height = 0) =>
            /\ Outcome(t).out = Err(InvalidSize)
            /\ Outcome(t).reached = {}

C4_Witness ==
    /\ \E t \in Done : t.source.size.width = 0 /\ t.source.source.kind = "Path"
    /\ \E t \in Done : t.source.size.height = 0 /\ t.source.source.kind = "Data"

\* min(1.0, min(bounds.width / size.width, bounds.height / size.height))
FracMin(a, b) == IF FracLeq(a, b) THEN a ELSE b
FitRatio(b, sz) ==
    FracMin(Frac(1, 1),
            FracMin(Frac(b.size.width, sz.width), Frac(b.size.height, sz.height)))

PositiveSize(e) == size[e].width > 0 /\ size[e].height > 0

\* C5: the ratio paint uses is min(1.0, min(bounds.width / size.width,
\* bounds.height / size.height)); for bounds (0,0,100,100) and size (200,50)
\* the ratio is 0.5, the scaled size (100,25) and the floored origin (0,37).
C5_RatioIsFitRatio ==
    \A e \in Elements :
        (Painted(e) /\ PositiveSize(e)) =>
            /\ FracEq(Call(e).ratio, FitRatio(Unwrap(bounds[e]), size[e]))
            /\ (Unwrap(bounds[e]) = Bounds(0, 0, 100, 100) /\ size[e] = Size(200, 50)) =>
                   /\ Call(e).ratio = Frac(1, 2)
                   /\ Call(e).new_size = [width |-> Frac(100, 1), height |-> Frac(25, 1)]
                   /\ Call(e).img_bounds.origin = [x |-> 0, y |-> 37]

\* C6: the scaled size, before rounding, is no larger than the bounds in
\* width and in height.
C6_NeverCropped ==
    \A e \in Elements :
        (Painted(e) /\ PositiveSize(e)) =>
            /\ FracLeq(Call(e).new_size.width, Frac(Unwrap(bounds[e]).size.width, 1))
            /\ FracLeq(Call(e).new_size.height, Frac(Unwrap(bounds[e]).size.height, 1))

\* C7: the ratio is at most 1.0, width and height are scaled by that one
\* ratio, and the scaled size is at most the logical size.
C7_NeverUpscaled ==
    \A e \in Elements :
        Painted(e) =>
            /\ FracLeq(Call(e).ratio, Frac(1, 1))
            /\ FracEq(Call(e).new_size.width, FracMul(size[e].width, Call(e).ratio))
            /\ FracEq(Call(e).new_size.height, FracMul(size[e].height, Call(e).ratio))
            /\ FracLeq(Call(e).new_size.width, Frac(size[e].width, 1))
            /\ FracLeq(Call(e).new_size.height, Frac(size[e].height, 1))

C7_Witness ==
    \E e \in Elements :
        /\ Painted(e) /\ PositiveSize(e)
        /\ Unwrap(bounds[e]).size.width > size[e].width
        /\ Unwrap(bounds[e]).size.height > size[e].height
        /\ Call(e).new_size = [width |-> Frac(size[e].width, 1),
                                height |-> Frac(size[e].height, 1)]

\* floor(origin + (extent - scaled) / 2), scaled = n / d
FloorCentered(origin, extent, scaled) ==
    (2 * origin * scaled[2] + extent * scaled[2] - scaled[1]) \div (2 * scaled[2])

\* C8: the painted rectangle has origin floor(bounds.origin + (bounds.size -
\* scaled_size) / 2) and size ceil(scaled_size) on each axis; for bounds
\* (0,0,100,50) and size (40,40) the scaled size is (40,40), the origin (30,5).
C8_Centered ==
    \A e \in Elements :
        Painted(e) =>
            LET b == Unwrap(bounds[e])
                c == Call(e)
            IN  /\ c.img_bounds.origin.x =
                      FloorCentered(b.origin.x, b.size.width, c.new_size.width)
                /\ c.img_bounds.origin.y =
                      FloorCentered(b.origin.y, b.size.height, c.new_size.height)
                /\ c.img_bounds.size.width = Ceil(c.new_size.width)
                /\ c.img_bounds.size.height = Ceil(c.new_size.height)
                /\ (b = Bounds(0, 0, 100, 50) /\ size[e] = Size(40, 40)) =>
                       /\ c.new_size = [width |-> Frac(40, 1), height |-> Frac(40, 1)]
                       /\ c.img_bounds.origin = [x |-> 30, y |-> 5]

C8_Witness ==
    \E e \in Elements :
        /\ Painted(e)
        /\ Unwrap(bounds[e]) = Bounds(0, 0, 100, 50)
        /\ size[e] = Size(40, 40)
        /\ Call(e).img_bounds = Bounds(30, 5, 40, 40)

\* C9: a pass whose request_layout found no source, a pending load or a
\* failed load issues no paint_image call, and a pass that obtained a bitmap
\* issues exactly one; a load that is pending or has failed when paint runs
\* means no call either.
ObservedBitmap(e) == observed[e] # None /\ Unwrap(observed[e]).ok
C9_PaintIffBitmap ==
    \A e \in Elements :
        /\ pc[e] # "painted" => ~Painted(e)
        /\ pc[e] = "painted" =>
              Len(painted[e]) = IF Requested(e) /\ ObservedBitmap(e) THEN 1 ELSE 0
        /\ (Requested(e) /\ Painted(e)) =>
              LET t == TaskOf(Unwrap(Cached(Unwrap(source[e]))))
              IN  t.outcome # None /\ Outcome(t).out.ok

C9_Witness ==
    \E e1, e2 \in Elements :
        /\ pc[e1] = "painted" /\ pc[e2] = "painted"
        /\ Len(painted[e1]) = 1
        /\ Requested(e2) /\ observed[e2] # None /\ ~Unwrap(observed[e2]).ok
        /\ ~Painted(e2)

\* C10: a zero-size target yields InvalidSize, an unparseable document
\* InvalidDocument, a failed pixmap allocation a third error, different from
\* both, and no failure returns a bitmap.
C10_DistinctErrorKinds ==
    \A t \in Done :
        /\ Outcome(t).returned = "size" => Outcome(t).out = Err(InvalidSize)
        /\ Outcome(t).returned = "parse" => Outcome(t).out = Err(InvalidDocument)
        /\ Outcome(t).returned = "pixmap" =>
              /\ ~Outcome(t).out.ok
              /\ Outcome(t).out.err \notin {InvalidSize, InvalidDocument}
        /\ Outcome(t).returned # "end" => ~Outcome(t).out.ok

\* The asset source answered with an error or found nothing.
Unresolved(res) == ~res.ok \/ res.val = None
NonZeroSize(sz) == sz.width # 0 /\ sz.height # 0

\* C11: a load of a Path source of non-zero size whose asset source answers
\* with an error or with nothing ends with the Io error, which is not the
\* parse error, and never reaches the parser.
C11_SourceUnavailable ==
    \A t \in Done :
        (/\ t.source.source.kind = "Path"
         /\ NonZeroSize(t.source.size)
         /\ Outcome(t).resolution # None
         /\ Unresolved(Unwrap(Outcome(t).resolution)))
        => /\ ~Outcome(t).out.ok
           /\ Outcome(t).out.err.variant = "Io"
           /\ Outcome(t).out.err # InvalidDocument
           /\ "parse" \notin Outcome(t).reached

C11_Witness ==
    \E t \in Done :
        /\ t.source.source.kind = "Path"
        /\ NonZeroSize(t.source.size)
        /\ Outcome(t).resolution = Some(Err("unreadable"))
        /\ Outcome(t).returned = "resolve"

\* The load saw the bytes of a document that parses.
Parseable(t) ==
    /\ Outcome(t).resolution # None
    /\ ~Unresolved(Unwrap(Outcome(t).resolution))
    /\ TreeFromData(Unwrap(Unwrap(Outcome(t).resolution).val)).ok

\* ceil(p * 2)
Oversampled(p) == Ceil(Frac(p * 2, 1))

\* The bitmap of a load is one frame of ceil(width*2) by ceil(height*2) pixels.
OversampledBitmap(t) ==
    /\ Outcome(t).out.ok
    /\ Outcome(t).out.val.frames = 1
    /\ Outcome(t).out.val.width = Oversampled(t.source.size.width)
    /\ Outcome(t).out.val.height = Oversampled(t.source.size.height)

\* C12 as stated: every load of a parseable document at a non-zero size
\* succeeds with one frame of ceil(width*2) by ceil(height*2) pixels.
C12_EveryNonZeroSizeSucceeds ==
    \A t \in Done :
        (NonZeroSize(t.source.size) /\ Parseable(t)) => OversampledBitmap(t)

\* The pixmap of ceil(width*2) by ceil(height*2) pixels can be made.
Allocatable(sz) == PixmapNew(Oversampled(sz.width), Oversampled(sz.height)) # None

\* C12, amended: every load of a parseable document at a non-zero size whose
\* oversampled pixmap can be allocated succeeds with one frame of
\* ceil(width*2) by ceil(height*2) pixels; when the pixmap cannot be
\* allocated the load fails and returns no bitmap.
C12_OversampledBitmap ==
    \A t \in Done :
        (NonZeroSize(t.source.size) /\ Parseable(t)) =>
            IF Allocatable(t.source.size)
            THEN OversampledBitmap(t)
            ELSE ~Outcome(t).out.ok

C12_Witness ==
    \E t \in Done :
        /\ t.source.size = Size(200, 50)
        /\ Outcome(t).out.ok
        /\ Outcome(t).out.val.width = 400
        /\ Outcome(t).out.val.height = 100
        /\ Outcome(t).out.val.frames = 1

\* c / (a/255) truncated, in exact arithmetic; undivided when a = 0.
Unpremultiplied(c, a) == IF a > 0 THEN (c * 255) \div a ELSE c

\* The straight-alpha BGRA pixel of a premultiplied RGBA pixel.
StraightBGRA(p) ==
    <<Unpremultiplied(p[3], p[4]), Unpremultiplied(p[2], p[4]),
      Unpremultiplied(p[1], p[4]), p[4]>>

\* C13: every pixel the conversion loop has visited is the straight-alpha
\* BGRA pixel of the premultiplied RGBA pixel that was rendered: the alpha
\* byte unchanged, each colour channel c / (a/255) truncated when a > 0 and
\* undivided when a = 0; so (128,0,0,128) has become (0,0,255,128) and an
\* opaque pixel has kept its colour values.
C13_StraightAlphaBGRA ==
    \A i \in 1..chunk :
        /\ buffer[i] = StraightBGRA(pixmap[i])
        /\ pixmap[i] = <<128, 0, 0, 128>> => buffer[i] = <<0, 0, 255, 128>>
        /\ pixmap[i][4] = 255 => buffer[i] = Swap02(pixmap[i])

\* The paint_image call of element e was answered with an error.
PaintFailed(e) == Painted(e) /\ ~Call(e).result.ok

\* C14: when paint_image returns an error, paint logs it and returns
\* normally: the step that gets the error ends the element's paint phase
\* with that one paint command issued and logged, it leaves every other
\* element as it was, still to run its own phases, and for as long as the
\* frame lasts the element issues no further paint command.
C14_PaintErrorLogged ==
    [][\A e \in Elements :
          /\ (pc[e] = "prepaint" /\ PaintFailed(e)') =>
                /\ Call(e)'.logged
                /\ pc'[e] = "painted"
                /\ Len(painted'[e]) = 1
                /\ \A e2 \in Elements \ {e} :
                      /\ pc'[e2] = pc[e2]
                      /\ prepaintState'[e2] = prepaintState[e2]
                      /\ painted'[e2] = painted[e2]
          /\ (PaintFailed(e) /\ pc'[e] = "painted") => painted'[e] = painted[e]
      ]_vars

\* One element's paint_image failed and the other element has painted its
\* bitmap in the same window.
C14_Witness ==
    \E e \in Elements, e2 \in Elements :
        /\ e # e2
        /\ PaintFailed(e)
        /\ Call(e).logged
        /\ Painted(e2)
        /\ Call(e2).result.ok

\* request_layout of element e found the load for its key pending.
Pending(e) == Requested(e) /\ observed[e] = None

\* The load the cache holds for the key of ImageSource src has completed
\* with a bitmap.
Loaded(src) ==
    /\ Cached(src) # {}
    /\ TaskOf(Unwrap(Cached(src))).outcome # None
    /\ Outcome(TaskOf(Unwrap(Cached(src)))).out.ok

\* The bitmap of that load.
LoadedBitmap(src) == Outcome(TaskOf(Unwrap(Cached(src)))).out.val

\* C15: the element never blocks on a load and does not lose it.  An
\* element whose request_layout found the load for its key pending has no
\* bitmap and paints nothing in that pass; a request_layout made once the
\* load for the key has completed with a bitmap obtains that bitmap, and the
\* paint of a pass that obtained a bitmap paints it.
C15_NonBlockingNotLost ==
    /\ [](\A e \in Elements : Pending(e) => layoutState[e] = None /\ ~Painted(e))
    /\ [][\A e \in Elements :
            /\ (pc[e] = "new" /\ pc'[e] = "layout" /\ source[e] # None
                    /\ Loaded(Unwrap(source[e]))) =>
                  layoutState'[e] = Some(LoadedBitmap(Unwrap(source[e])))
            /\ (pc[e] = "prepaint" /\ pc'[e] = "painted" /\ layoutState[e] # None) =>
                  /\ Painted(e)'
                  /\ Call(e)'.data = Unwrap(layoutState[e])
       ]_vars

\* One element found the load pending and has ended its pass with nothing
\* painted; the load has completed since, and the other element, rendered
\* afterwards with the same source, has painted the bitmap of that load.
C15_Witness ==
    \E e \in Elements, e2 \in Elements :
        /\ e # e2
        /\ source[e] # None
        /\ source[e2] = source[e]
        /\ Pending(e2)
        /\ pc[e2] = "painted"
        /\ ~Painted(e2)
        /\ Loaded(Unwrap(source[e]))
        /\ Painted(e)
        /\ Call(e).data = LoadedBitmap(Unwrap(source[e]))

\* The order of the phases of a render pass, and the new pass after it.
PhaseOrder == {<<"new", "layout">>, <<"layout", "prepaint">>, <<"prepaint", "painted">>,
               <<"painted", "new">>}

\* C16: within a render pass the phases run in the order request_layout,
\* prepaint, paint, and the optional bitmap goes through them unchanged:
\* what request_layout obtained is what prepaint holds and what paint hands
\* to paint_image (nothing painted when it obtained nothing), and no step
\* taken between the phases, the completion of the load included, changes it.
C16_BitmapThreaded ==
    /\ [](\A e \in Elements :
            /\ pc[e] \in {"prepaint", "painted"} => prepaintState[e] = layoutState[e]
            /\ pc[e] = "painted" =>
                  /\ Painted(e) <=> layoutState[e] # None
                  /\ Painted(e) => Call(e).data = Unwrap(layoutState[e]))
    /\ [][\A e \in Elements :
            /\ pc'[e] # pc[e] => <<pc[e], pc'[e]>> \in PhaseOrder
            /\ (pc[e] \in {"layout", "prepaint"} /\ pc'[e] # "new") =>
                  layoutState'[e] = layoutState[e]
       ]_vars

\* An element obtained nothing, its load completed with a bitmap before the
\* pass was over, and the pass ended with nothing painted; the other element
\* obtained a bitmap and painted that bitmap.
C16_Witness ==
    \E e \in Elements, e2 \in Elements :
        /\ e # e2
        /\ pc[e] = "painted"
        /\ Pending(e)
        /\ Loaded(Unwrap(source[e]))
        /\ ~Painted(e)
        /\ pc[e2] = "painted"
        /\ layoutState[e2] # None
        /\ prepaintState[e2] = layoutState[e2]
        /\ Call(e2).data = Unwrap(layoutState[e2])

\* C17: in SidebarStory the active sub-item, when present, is one of the
\* sub-items of the active item.
C17_SubItemOfActiveItem ==
    active_subitem # None => Unwrap(active_subitem) \in Range(Items(active_item))

\* C18: after perform_sort(col_ix, sort) on an existing column, with sort
\* Ascending or Descending, col_sort(col_ix) returns Some(sort).
C18_SortedColumnReportsSort ==
    (/\ lastCall.op = "perform_sort"
     /\ lastCall.col_ix < Len(columns)
     /\ lastCall.sort \in {"Ascending", "Descending"})
        => col_sort(columns, lastCall.col_ix) = Some(lastCall.sort)

\* The columns that report a sort direction other than Default.
Directed == {i \in 1..Len(columns) : columns[i].sort \in {Some("Ascending"), Some("Descending")}}

\* C19: after any sequence of perform_sort and move_col calls from the
\* initial columns, at most one column reports Ascending or Descending.
C19_AtMostOneDirected == Cardinality(Directed) <= 1
====
